---- MODULE Spec2Model ----
(***************************************************************************)
(* Appointment scheduling core of server.js: POST /appointments and        *)
(* PATCH /appointments/:id/cancel over the tables services,                *)
(* professional_services and appointments.                                 *)
(*                                                                         *)
(* Every dbQuery call runs one autocommitted SQL statement on a pooled     *)
(* connection, so a handler is a chain of atomic statements with other     *)
(* handlers free to run between two of them.  One action of the model is   *)
(* one statement together with the JavaScript that consumes its result up  *)
(* to the next await.                                                      *)
(***************************************************************************)
EXTENDS Integers, Sequences, FiniteSets, TLC

\* ---- bounds ----
\* number of POST /appointments requests (numbered in arrival order)
NumReqs == 2

\* ---- optional values: undefined / SQL NULL is None, a value v is Some(v) ----
None == << >>
Some(v) == <<v>>

\* ---- input domains ----
T0 == "1970-01-01T00:00:00.000Z"
T30 == "1970-01-01T00:30:00.000Z"
ClientIds == {1}
ProfessionalIds == {1, 2}
ServiceIds == {1, 2, 3}
StartTexts == {T0, T30}
Reqs == 1..NumReqs
CancelIds == 1..(NumReqs + 2)
Opt(S) == {None} \cup {Some(v) : v \in S}
Bodies == [clientId : Opt(ClientIds), professionalId : Opt(ProfessionalIds),
           serviceId : Opt(ServiceIds), startTime : Opt(StartTexts)]

\* ---- catalog rows present in the database ----
\* services 1 (active) and 2 (inactive) exist, service 3 does not
InitServices == (1 :> [duration_min |-> 30, price_cents |-> 5000, is_active |-> TRUE])
             @@ (2 :> [duration_min |-> 60, price_cents |-> 8000, is_active |-> FALSE])
\* professional 2 overrides the duration of service 1 and the price of service 2
InitProfessionalServices ==
     (<<2, 1>> :> [custom_duration_min |-> Some(45), custom_price_cents |-> None])
  @@ (<<2, 2>> :> [custom_duration_min |-> None, custom_price_cents |-> Some(7000)])

VARIABLES services, professional_services, appointments, handler, reply, cancelReply

vars == <<services, professional_services, appointments, handler, reply, cancelReply>>

\* ---- helpers ----
\* JavaScript !v for the values a body field takes here
Falsy(v) == v = None

\* a ?? b
Coalesce(a, b) == IF a # None THEN a[1] ELSE b

\* new Date(text).getTime(): milliseconds, None for an Invalid Date
DateParse(text) ==
  CASE text = T0 -> Some(0)
    [] text = T30 -> Some(30 * 60000)
    [] OTHER -> None

\* mutant: only asks whether the second range starts inside the first
RangesOverlapStartInside(lo1, hi1, lo2, hi2) ==
  /\ lo1 <= lo2
  /\ lo2 < hi1

\* mutant: both ranges taken as closed, '[]'
RangesOverlapClosed(lo1, hi1, lo2, hi2) ==
  /\ lo1 <= hi2
  /\ lo2 <= hi1

\* PostgreSQL && on two '[)' ranges: an empty range overlaps nothing
RangesOverlap(lo1, hi1, lo2, hi2) ==
  /\ lo1 # hi1
  /\ lo2 # hi2
  /\ lo1 < hi2
  /\ lo2 < hi1

\* mutant: CANCELLED left out of the NOT IN list
InactiveNoShowOnly == {"NO_SHOW"}

\* status NOT IN ('CANCELLED', 'NO_SHOW')
Inactive == {"CANCELLED", "NO_SHOW"}

\* mutant: the professional_id = $1 condition left out
OverlappingRowsAnyProfessional(professionalId, startTime, endTime) ==
  {i \in 1..Len(appointments) :
     /\ appointments[i].status \notin Inactive
     /\ RangesOverlap(appointments[i].start_time, appointments[i].end_time,
                      startTime, endTime)}

\* the rows the SELECT of hasOverlappingAppointment matches
OverlappingRows(professionalId, startTime, endTime) ==
  {i \in 1..Len(appointments) :
     /\ appointments[i].professional_id = professionalId
     /\ appointments[i].status \notin Inactive
     /\ RangesOverlap(appointments[i].start_time, appointments[i].end_time,
                      startTime, endTime)}

\* mutant: rows.length > 1, which LIMIT 1 never lets hold
hasOverlappingAppointmentOffByOne(professionalId, startTime, endTime) ==
  LET length == IF OverlappingRows(professionalId, startTime, endTime) = {} THEN 0 ELSE 1
  IN length > 1

\* rows.length > 0
hasOverlappingAppointment(professionalId, startTime, endTime) ==
  OverlappingRows(professionalId, startTime, endTime) # {}

\* mutant: the override row read as a pair, used only when both columns are set
getServiceDetailsPairwise(professionalId, serviceId) ==
  IF serviceId \notin DOMAIN services THEN None
  ELSE LET s == services[serviceId]
           ps == IF <<professionalId, serviceId>> \in DOMAIN professional_services
                 THEN professional_services[<<professionalId, serviceId>>]
                 ELSE [custom_duration_min |-> None, custom_price_cents |-> None]
           both == ps.custom_duration_min # None /\ ps.custom_price_cents # None
       IN Some([durationMin |-> IF both THEN ps.custom_duration_min[1] ELSE s.duration_min,
                priceCents |-> IF both THEN ps.custom_price_cents[1] ELSE s.price_cents])

\* mutant: AND s.is_active added to the WHERE clause
getServiceDetailsActiveOnly(professionalId, serviceId) ==
  IF serviceId \notin DOMAIN services \/ ~services[serviceId].is_active THEN None
  ELSE LET s == services[serviceId]
           ps == IF <<professionalId, serviceId>> \in DOMAIN professional_services
                 THEN professional_services[<<professionalId, serviceId>>]
                 ELSE [custom_duration_min |-> None, custom_price_cents |-> None]
       IN Some([durationMin |-> Coalesce(ps.custom_duration_min, s.duration_min),
                priceCents |-> Coalesce(ps.custom_price_cents, s.price_cents)])

\* mutant: WHERE s.id = $1, the professional's id taken for the service's
getServiceDetailsWrongParam(professionalId, serviceId) ==
  IF professionalId \notin DOMAIN services THEN None
  ELSE LET s == services[professionalId]
           ps == IF <<professionalId, professionalId>> \in DOMAIN professional_services
                 THEN professional_services[<<professionalId, professionalId>>]
                 ELSE [custom_duration_min |-> None, custom_price_cents |-> None]
       IN Some([durationMin |-> Coalesce(ps.custom_duration_min, s.duration_min),
                priceCents |-> Coalesce(ps.custom_price_cents, s.price_cents)])

\* services LEFT JOIN professional_services, then ?? per column
getServiceDetails(professionalId, serviceId) ==
  IF serviceId \notin DOMAIN services THEN None
  ELSE LET s == services[serviceId]
           ps == IF <<professionalId, serviceId>> \in DOMAIN professional_services
                 THEN professional_services[<<professionalId, serviceId>>]
                 ELSE [custom_duration_min |-> None, custom_price_cents |-> None]
       IN Some([durationMin |-> Coalesce(ps.custom_duration_min, s.duration_min),
                priceCents |-> Coalesce(ps.custom_price_cents, s.price_cents)])

\* ---- handler frames and replies ----
Frame(p) == [pc |-> p, clientId |-> None, professionalId |-> None, serviceId |-> None,
             startTime |-> None, priceCents |-> None, start |-> None, end |-> None]

NoReply == [status |-> 0, error |-> "", appointment |-> None]
Reply(code, msg) == [status |-> code, error |-> msg, appointment |-> None]

\* reply.status(code).send(...) ends the handler: its locals are gone
Finish(r, rep) ==
  /\ handler' = [handler EXCEPT ![r] = Frame("done")]
  /\ reply' = [reply EXCEPT ![r] = rep]

\* the appointments table when the server starts: empty, or holding one row
\* in a status this server never writes itself
SeedRow(st) ==
  [id |-> 1, client_id |-> 1, professional_id |-> 1, service_id |-> 1,
   start_time |-> 0, end_time |-> 30 * 60000, status |-> st,
   total_price_cents |-> 5000, updated_at |-> None]
InitAppointments == {<< >>} \cup {<<SeedRow(st)>> : st \in {"CONFIRMED", "COMPLETED", "NO_SHOW"}}

Init ==
  /\ services = InitServices
  /\ professional_services = InitProfessionalServices
  /\ appointments \in InitAppointments
  /\ handler = [r \in Reqs |-> Frame("idle")]
  /\ reply = [r \in Reqs |-> NoReply]
  /\ cancelReply = 0

\* ---- POST /appointments ----
\* mutant: !clientId left out of the presence test
ReceiveNoClientCheck(r, b) ==
  /\ handler[r].pc = "idle"
  /\ \A q \in 1..(r - 1) : handler[q].pc # "idle"
  /\ IF Falsy(b.professionalId) \/ Falsy(b.serviceId) \/ Falsy(b.startTime)
     THEN Finish(r, Reply(400, "Dados obrigatorios faltando."))
     ELSE /\ handler' = [handler EXCEPT ![r] =
                 [Frame("resolve") EXCEPT !.clientId = b.clientId,
                                          !.professionalId = b.professionalId,
                                          !.serviceId = b.serviceId,
                                          !.startTime = b.startTime]]
          /\ UNCHANGED reply
  /\ UNCHANGED <<services, professional_services, appointments, cancelReply>>

\* lines 243-253: destructure the body, refuse when a required field is falsy
Receive(r, b) ==
  /\ handler[r].pc = "idle"
  /\ \A q \in 1..(r - 1) : handler[q].pc # "idle"
  /\ IF Falsy(b.clientId) \/ Falsy(b.professionalId) \/ Falsy(b.serviceId) \/ Falsy(b.startTime)
     THEN Finish(r, Reply(400, "Dados obrigatorios faltando."))
     ELSE /\ handler' = [handler EXCEPT ![r] =
                 [Frame("resolve") EXCEPT !.clientId = b.clientId,
                                          !.professionalId = b.professionalId,
                                          !.serviceId = b.serviceId,
                                          !.startTime = b.startTime]]
          /\ UNCHANGED reply
  /\ UNCHANGED <<services, professional_services, appointments, cancelReply>>

\* lines 255-270: the catalog SELECT, then start and end; toISOString throws
\* a RangeError on an Invalid Date, which the catch turns into a 500
Resolve(r) ==
  /\ handler[r].pc = "resolve"
  /\ LET h == handler[r]
         details == getServiceDetails(h.professionalId[1], h.serviceId[1])
         start == DateParse(h.startTime[1])
     IN IF details = None
        THEN Finish(r, Reply(400, "Servico invalido."))
        ELSE IF start = None
        THEN Finish(r, Reply(500, "Erro ao criar agendamento."))
        ELSE /\ handler' = [handler EXCEPT ![r] =
                    [h EXCEPT !.pc = "check",
                              !.priceCents = Some(details[1].priceCents),
                              !.start = start,
                              !.end = Some(start[1] + details[1].durationMin * 60000)]]
             /\ UNCHANGED reply
  /\ UNCHANGED <<services, professional_services, appointments, cancelReply>>

\* lines 266-274: the overlap SELECT and the 409
Check(r) ==
  /\ handler[r].pc = "check"
  /\ LET h == handler[r]
     IN IF hasOverlappingAppointment(h.professionalId[1], h.start[1], h.end[1])
        THEN Finish(r, Reply(409, "Horario indisponivel."))
        ELSE /\ handler' = [handler EXCEPT ![r].pc = "insert"]
             /\ UNCHANGED reply
  /\ UNCHANGED <<services, professional_services, appointments, cancelReply>>

\* mutant: $4 bound to both time columns, the row ends where it starts
NewRowEndIsStart(h) ==
  [id |-> Len(appointments) + 1,
   client_id |-> h.clientId[1],
   professional_id |-> h.professionalId[1],
   service_id |-> h.serviceId[1],
   start_time |-> h.start[1],
   end_time |-> h.start[1],
   status |-> "PENDING",
   total_price_cents |-> h.priceCents[1],
   updated_at |-> None]

\* the row INSERT ... RETURNING * produces; ids come from a sequence and no
\* row is ever deleted; the statement names no updated_at
NewRow(h) ==
  [id |-> Len(appointments) + 1,
   client_id |-> h.clientId[1],
   professional_id |-> h.professionalId[1],
   service_id |-> h.serviceId[1],
   start_time |-> h.start[1],
   end_time |-> h.end[1],
   status |-> "PENDING",
   total_price_cents |-> h.priceCents[1],
   updated_at |-> None]

\* lines 276-293: the INSERT and the 201
Insert(r) ==
  /\ handler[r].pc = "insert"
  /\ LET row == NewRow(handler[r])
     IN /\ appointments' = Append(appointments, row)
        /\ Finish(r, [status |-> 201, error |-> "", appointment |-> Some(row)])
  /\ UNCHANGED <<services, professional_services, cancelReply>>

\* ---- PATCH /appointments/:id/cancel ----
\* mutant: SET status = 'CANCELLED' guarded by AND status = 'PENDING'
CancelledIfPending(row) ==
  IF row.status = "PENDING"
  THEN [row EXCEPT !.status = "CANCELLED", !.updated_at = Some("NOW()")]
  ELSE row

\* mutant: the status literal spelled 'CANCELED'
CancelledMisspelt(row) == [row EXCEPT !.status = "CANCELED", !.updated_at = Some("NOW()")]

\* mutant: a second cancel puts the row back to PENDING
CancelledToggle(row) ==
  [row EXCEPT !.status = IF row.status = "CANCELLED" THEN "PENDING" ELSE "CANCELLED",
              !.updated_at = Some("NOW()")]

\* mutant: the UPDATE also empties the interval, end_time = start_time
CancelledReleasesInterval(row) ==
  [row EXCEPT !.status = "CANCELLED", !.updated_at = Some("NOW()"),
              !.end_time = row.start_time]

\* the row the UPDATE writes for a matched row
\* (the clock is not modelled: NOW() is one symbolic reading)
Cancelled(row) == [row EXCEPT !.status = "CANCELLED", !.updated_at = Some("NOW()")]

\* mutant: DELETE FROM appointments WHERE id = $1 in place of the UPDATE
CancelDeletes(id) ==
  /\ appointments' = SelectSeq(appointments, LAMBDA row : row.id # id)
  /\ cancelReply' = IF \E i \in 1..Len(appointments) : appointments[i].id = id
                    THEN 200 ELSE 404
  /\ UNCHANGED <<services, professional_services, handler, reply>>

\* mutant: the rowCount === 0 test left out
CancelNoRowCount(id) ==
  /\ appointments' = [i \in 1..Len(appointments) |->
                        IF appointments[i].id = id
                        THEN Cancelled(appointments[i])
                        ELSE appointments[i]]
  /\ cancelReply' = 200
  /\ UNCHANGED <<services, professional_services, handler, reply>>

\* lines 377-398: one UPDATE ... WHERE id = $1, then 404 when rowCount is 0;
\* cancelReply is the status of the latest reply
Cancel(id) ==
  /\ appointments' = [i \in 1..Len(appointments) |->
                        IF appointments[i].id = id
                        THEN Cancelled(appointments[i])
                        ELSE appointments[i]]
  /\ cancelReply' = IF \E i \in 1..Len(appointments) : appointments[i].id = id
                    THEN 200 ELSE 404
  /\ UNCHANGED <<services, professional_services, handler, reply>>

Next ==
  \/ \E r \in Reqs, b \in Bodies : Receive(r, b)
  \/ \E r \in Reqs : Resolve(r)
  \/ \E r \in Reqs : Check(r)
  \/ \E r \in Reqs : Insert(r)
  \/ \E id \in CancelIds : Cancel(id)

Spec == Init /\ [][Next]_vars

\* ---- a store that can fail ----
\* dbQuery rejects (pool.connect or client.query throws) in one of the three
\* statements of POST /appointments; the handler's catch answers 500 at once.
\* A failed statement writes nothing.
QueryFails(r) ==
  /\ handler[r].pc \in {"resolve", "check", "insert"}
  /\ Finish(r, Reply(500, "Erro ao criar agendamento."))
  /\ UNCHANGED <<services, professional_services, appointments, cancelReply>>

\* dbQuery rejects in the UPDATE of the cancel route; its catch answers 500
CancelFails ==
  /\ cancelReply' = 500
  /\ UNCHANGED <<services, professional_services, appointments, handler, reply>>

NextFault ==
  \/ Next
  \/ \E r \in Reqs : QueryFails(r)
  \/ CancelFails

\* the server with a store in which any single statement may fail while every
\* other statement succeeds
SpecFault == Init /\ [][NextFault]_vars

\* ---- creates run one at a time ----
\* some create has passed its overlap check and not yet run its INSERT
MidCreate == \E q \in Reqs : handler[q].pc = "insert"

\* the steps of Next, with nothing but the pending INSERT scheduled between a
\* create's overlap check and its INSERT
NextSeq ==
  \/ ~MidCreate /\ \E r \in Reqs, b \in Bodies : Receive(r, b)
  \/ ~MidCreate /\ \E r \in Reqs : Resolve(r)
  \/ ~MidCreate /\ \E r \in Reqs : Check(r)
  \/ \E r \in Reqs : Insert(r)
  \/ ~MidCreate /\ \E id \in CancelIds : Cancel(id)

SpecSeq == Init /\ [][NextSeq]_vars

\* ---- a catalog that changes under the server ----
\* the catalog after an administrator's change: service 1 longer and dearer,
\* the override of (2, 1) now on the price, the override of (2, 2) removed
ChangedServices == (1 :> [duration_min |-> 45, price_cents |-> 6000, is_active |-> TRUE])
                @@ (2 :> [duration_min |-> 60, price_cents |-> 8000, is_active |-> FALSE])
ChangedProfessionalServices ==
  <<2, 1>> :> [custom_duration_min |-> None, custom_price_cents |-> Some(4000)]

\* the two catalog tables are rewritten outside the server (it has no route
\* that writes them); getServiceDetails reads them anew at every call
CatalogChange ==
  /\ services = InitServices
  /\ services' = ChangedServices
  /\ professional_services' = ChangedProfessionalServices
  /\ UNCHANGED <<appointments, handler, reply, cancelReply>>

NextCatalog ==
  \/ Next
  \/ CatalogChange

\* the server started on an empty appointments table
InitCatalog ==
  /\ services = InitServices
  /\ professional_services = InitProfessionalServices
  /\ appointments = << >>
  /\ handler = [r \in Reqs |-> Frame("idle")]
  /\ reply = [r \in Reqs |-> NoReply]
  /\ cancelReply = 0

SpecCatalog == InitCatalog /\ [][NextCatalog]_vars

\* ---- vocabulary of the properties ----
Rows == 1..Len(appointments)
\* a row that takes part in the no-overlap rule
Active(row) == row.status # "CANCELLED" /\ row.status # "NO_SHOW"
\* [s1, e1) and [s2, e2) intersect
Intersect(s1, e1, s2, e2) == s1 < e2 /\ s2 < e1
\* row i is an active row of request r's professional that intersects r's interval
Blocks(i, r) ==
  /\ appointments[i].professional_id = handler[r].professionalId[1]
  /\ Active(appointments[i])
  /\ Intersect(appointments[i].start_time, appointments[i].end_time,
               handler[r].start[1], handler[r].end[1])
\* row i is a cancelled row for request r's professional and exact interval
CancelledTwin(i, r) ==
  /\ appointments[i].status = "CANCELLED"
  /\ appointments[i].professional_id = handler[r].professionalId[1]
  /\ appointments[i].start_time = handler[r].start[1]
  /\ appointments[i].end_time = handler[r].end[1]
\* this step is the one in which request r's overlap check is decided
CheckStep(r) == handler[r].pc = "check" /\ handler'[r] # handler[r]

\* C1: for every professional, no two stored appointments with status outside
\* {CANCELLED, NO_SHOW} have intersecting [start_time, end_time) intervals.
NoOverlapInvariant ==
  \A i \in Rows : \A j \in Rows :
    (/\ i < j
     /\ appointments[i].professional_id = appointments[j].professional_id
     /\ Active(appointments[i])
     /\ Active(appointments[j]))
    => ~Intersect(appointments[i].start_time, appointments[i].end_time,
                  appointments[j].start_time, appointments[j].end_time)

\* C2: two create requests for the same professional and the same interval never
\* both answer 201 with rows that are both still standing: of two racing
\* bookings of a free slot one is created and the other is refused with 409.
AtomicBooking ==
  \A r1 \in Reqs : \A r2 \in Reqs :
    (r1 # r2 /\ reply[r1].status = 201 /\ reply[r2].status = 201)
    => LET a == reply[r1].appointment[1]
           b == reply[r2].appointment[1]
       IN ~(/\ a.professional_id = b.professional_id
            /\ a.start_time = b.start_time
            /\ a.end_time = b.end_time
            /\ appointments[a.id].status = "PENDING"
            /\ appointments[b.id].status = "PENDING")

\* C3: while one create request is between its overlap check and its insert, no
\* other create request for the same professional performs its overlap check
\* or its insert.
SerializedRegion ==
  [][\A r1 \in Reqs : \A r2 \in Reqs :
       (/\ r1 # r2
        /\ handler[r1].pc = "insert"
        /\ handler[r2].pc \in {"check", "insert"}
        /\ handler[r1].professionalId = handler[r2].professionalId)
       => handler'[r2] = handler[r2]]_vars

\* C4: the overlap check of a request for [s, e) answers 409 exactly when some
\* active appointment a of the professional has a.start < e and s < a.end, so
\* an appointment that ends when the request starts does not block it.
HalfOpenOverlap ==
  [][\A r \in Reqs :
       CheckStep(r) =>
         ((reply'[r].status = 409) <=>
          \E i \in Rows :
            /\ appointments[i].professional_id = handler[r].professionalId[1]
            /\ Active(appointments[i])
            /\ appointments[i].start_time < handler[r].end[1]
            /\ handler[r].start[1] < appointments[i].end_time)]_vars

\* two requests were both answered 201 for the same professional, the later row
\* starting exactly where the earlier one ends
TouchingBothBooked ==
  \E r1 \in Reqs : \E r2 \in Reqs :
    /\ r1 # r2
    /\ reply[r1].status = 201
    /\ reply[r2].status = 201
    /\ LET a == reply[r1].appointment[1]
           b == reply[r2].appointment[1]
       IN /\ a.id < b.id
          /\ a.professional_id = b.professional_id
          /\ a.end_time = b.start_time
          /\ appointments[a.id].status = "PENDING"
          /\ appointments[b.id].status = "PENDING"

\* C5: a create request for the professional and exact interval of a cancelled
\* appointment, checked when no active appointment of that professional
\* intersects the interval, passes its overlap check, and its insert answers
\* 201 with a new PENDING row for that interval.
CancelReleasesSlot ==
  [][\A r \in Reqs :
       /\ (/\ CheckStep(r)
           /\ \E i \in Rows : CancelledTwin(i, r)
           /\ \A i \in Rows : ~Blocks(i, r))
          => handler'[r].pc = "insert"
       /\ (/\ handler[r].pc = "insert"
           /\ handler'[r] # handler[r]
           /\ \E i \in Rows : CancelledTwin(i, r))
          => /\ reply'[r].status = 201
             /\ Len(appointments') = Len(appointments) + 1
             /\ reply'[r].appointment = Some(appointments'[Len(appointments')])
             /\ appointments'[Len(appointments')].status = "PENDING"
             /\ appointments'[Len(appointments')].professional_id = handler[r].professionalId[1]
             /\ appointments'[Len(appointments')].start_time = handler[r].start[1]
             /\ appointments'[Len(appointments')].end_time = handler[r].end[1]]_vars

\* a request was answered 201 with a PENDING row on the professional and exact
\* interval of an earlier row that is cancelled
RebookedAfterCancel ==
  \E r \in Reqs :
    /\ reply[r].status = 201
    /\ LET b == reply[r].appointment[1]
       IN \E i \in Rows :
            /\ i < b.id
            /\ appointments[i].status = "CANCELLED"
            /\ appointments[i].professional_id = b.professional_id
            /\ appointments[i].start_time = b.start_time
            /\ appointments[i].end_time = b.end_time
            /\ appointments[b.id].status = "PENDING"

\* C6: a create request for professional P is not refused with 409 when every
\* stored appointment that intersects its interval belongs to another
\* professional or has status CANCELLED or NO_SHOW.
ConflictScope ==
  [][\A r \in Reqs :
       (/\ CheckStep(r)
        /\ \A i \in Rows :
             Intersect(appointments[i].start_time, appointments[i].end_time,
                       handler[r].start[1], handler[r].end[1])
             => \/ appointments[i].professional_id # handler[r].professionalId[1]
                \/ appointments[i].status \in {"CANCELLED", "NO_SHOW"})
       => /\ handler'[r].pc = "insert"
          /\ reply'[r].status # 409]_vars

\* a request has passed its overlap check although its interval intersects the
\* NO_SHOW row of its own professional the table started with and an active row
\* of the other professional
PassedDespiteOutOfScopeRows ==
  \E r \in Reqs :
    /\ handler[r].pc = "insert"
    /\ \E i \in Rows :
         /\ appointments[i].status = "NO_SHOW"
         /\ appointments[i].professional_id = handler[r].professionalId[1]
         /\ Intersect(appointments[i].start_time, appointments[i].end_time,
                      handler[r].start[1], handler[r].end[1])
    /\ \E j \in Rows :
         /\ Active(appointments[j])
         /\ appointments[j].professional_id # handler[r].professionalId[1]
         /\ Intersect(appointments[j].start_time, appointments[j].end_time,
                      handler[r].start[1], handler[r].end[1])

\* C7: a create request whose interval intersects an active appointment of its
\* professional when its overlap check runs ends with 409 in that step and the
\* appointments table is left as it was.
ConflictWritesNothing ==
  [][\A r \in Reqs :
       (CheckStep(r) /\ \E i \in Rows : Blocks(i, r))
       => /\ handler'[r].pc = "done"
          /\ reply'[r] = Reply(409, "Horario indisponivel.")
          /\ appointments' = appointments]_vars

\* a request was refused with 409
ConflictRefused == \E r \in Reqs : reply[r].status = 409

\* C8: a create request whose serviceId is no row of services ends, for every
\* professionalId, with 400 'Servico invalido.' at its catalog lookup, and the
\* appointments table is left as it was.
UnknownServiceRefused ==
  [][\A r \in Reqs :
       (/\ handler[r].pc = "resolve"
        /\ handler'[r] # handler[r]
        /\ handler[r].serviceId[1] \notin DOMAIN services)
       => /\ handler'[r].pc = "done"
          /\ reply'[r] = Reply(400, "Servico invalido.")
          /\ appointments' = appointments]_vars

\* a request was refused as naming an invalid service
InvalidServiceReplied == \E r \in Reqs : reply[r].error = "Servico invalido."

\* C9: a create request with clientId, professionalId, serviceId or startTime
\* absent ends with 400 as it is received, with no catalog lookup or overlap
\* check of its own, and the appointments table is left as it was: a step
\* that receives request r either has that outcome or receives no body with a
\* field absent.
ValidationRefused ==
  [][\A r \in Reqs :
       (handler[r].pc = "idle" /\ handler'[r] # handler[r])
       => \/ /\ handler'[r].pc = "done"
             /\ reply'[r] = Reply(400, "Dados obrigatorios faltando.")
             /\ appointments' = appointments
          \/ \A b \in Bodies :
               Receive(r, b) => /\ b.clientId # None
                                /\ b.professionalId # None
                                /\ b.serviceId # None
                                /\ b.startTime # None]_vars

\* a request was refused for a missing field
MissingFieldReplied == \E r \in Reqs : reply[r].error = "Dados obrigatorios faltando."

\* C10: a cancel request for an id that is no stored appointment is answered
\* 404 and leaves every stored appointment as it was.
CancelUnknownId ==
  [][\A id \in CancelIds :
       (Cancel(id) /\ \A i \in Rows : appointments[i].id # id)
       => /\ cancelReply' = 404
          /\ appointments' = appointments]_vars

\* a cancel was answered 404 while appointments are stored
CancelNotFound == cancelReply = 404 /\ Len(appointments) > 0

\* ---- the catalog rule, written from the two tables ----
\* the override row of the pair, when there is one
HasOverride(p, s) == <<p, s>> \in DOMAIN professional_services
\* minutes in effect for professional p and service s
EffectiveDuration(p, s) ==
  IF HasOverride(p, s) /\ professional_services[<<p, s>>].custom_duration_min # None
  THEN professional_services[<<p, s>>].custom_duration_min[1]
  ELSE services[s].duration_min
\* price in effect for professional p and service s
EffectivePrice(p, s) ==
  IF HasOverride(p, s) /\ professional_services[<<p, s>>].custom_price_cents # None
  THEN professional_services[<<p, s>>].custom_price_cents[1]
  ELSE services[s].price_cents
\* this step is the one in which request r's service details are resolved
ResolveStep(r) == handler[r].pc = "resolve" /\ handler'[r] # handler[r]
\* this step is the one in which request r's row is inserted
InsertStep(r) == handler[r].pc = "insert" /\ handler'[r] # handler[r]

\* C11: for an existing service the resolved duration is the pair's override
\* duration when one is set and the service's default otherwise, and the
\* resolved price is decided the same way on its own column, whatever the
\* other column holds.
OverridePrecedence ==
  [][\A r \in Reqs :
       (ResolveStep(r) /\ handler[r].serviceId[1] \in DOMAIN services)
       => LET p == handler[r].professionalId[1]
              s == handler[r].serviceId[1]
          IN /\ handler'[r].pc = "check"
             /\ handler'[r].end[1] - handler'[r].start[1] = EffectiveDuration(p, s) * 60000
             /\ handler'[r].priceCents = Some(EffectivePrice(p, s))]_vars

\* a request resolved 45 minutes at 5000 for a service of 30 minutes at 5000
\* whose override row sets the duration alone
DurationOnlyOverrideResolved ==
  \E r \in Reqs :
    /\ handler[r].pc = "check"
    /\ HasOverride(handler[r].professionalId[1], handler[r].serviceId[1])
    /\ services[handler[r].serviceId[1]].duration_min = 30
    /\ services[handler[r].serviceId[1]].price_cents = 5000
    /\ professional_services[<<handler[r].professionalId[1], handler[r].serviceId[1]>>]
         = [custom_duration_min |-> Some(45), custom_price_cents |-> None]
    /\ handler[r].end[1] - handler[r].start[1] = 45 * 60000
    /\ handler[r].priceCents = Some(5000)

\* C12: the row a create inserts has status PENDING, ends at its start plus
\* the duration in effect for the request's professional and service, and
\* carries the price in effect for them; the reply is a 201 with that row.
CreationSnapshot ==
  [][\A r \in Reqs :
       InsertStep(r)
       => LET h == handler[r]
              row == appointments'[Len(appointments')]
          IN /\ Len(appointments') = Len(appointments) + 1
             /\ row.status = "PENDING"
             /\ row.professional_id = h.professionalId[1]
             /\ row.service_id = h.serviceId[1]
             /\ DateParse(h.startTime[1]) = Some(row.start_time)
             /\ row.end_time = row.start_time
                  + EffectiveDuration(row.professional_id, row.service_id) * 60000
             /\ row.total_price_cents = EffectivePrice(row.professional_id, row.service_id)
             /\ reply'[r].status = 201
             /\ reply'[r].appointment = Some(row)]_vars

\* a create was answered 201 for a pair whose override sets the price alone
PriceOverrideBooked ==
  \E r \in Reqs :
    /\ reply[r].status = 201
    /\ LET row == reply[r].appointment[1]
       IN /\ row.status = "PENDING"
          /\ HasOverride(row.professional_id, row.service_id)
          /\ professional_services[<<row.professional_id, row.service_id>>].custom_price_cents
               = Some(7000)
          /\ row.total_price_cents = 7000
          /\ row.end_time - row.start_time = 60 * 60000

\* the ids stored in a table
Ids(table) == {table[i].id : i \in 1..Len(table)}
\* the statuses the schema names
StatusDomain == {"PENDING", "CANCELLED", "NO_SHOW", "COMPLETED", "CONFIRMED"}

\* C13: a cancel of a stored id is answered 200 and leaves that row CANCELLED
\* whatever its status was (PENDING, CONFIRMED, COMPLETED, NO_SHOW or
\* CANCELLED); on a row that is already CANCELLED the status stays as it is.
UnconditionalCancel ==
  [][\A i \in Rows :
       \/ /\ cancelReply' = 200
          /\ Len(appointments') = Len(appointments)
          /\ appointments'[i].status = "CANCELLED"
          /\ appointments[i].status = "CANCELLED"
             => appointments'[i].status = appointments[i].status
       \/ ~Cancel(appointments[i].id)]_vars

\* row 1 was stored before the server started (no create returned it), row 2
\* was created here, and both have been cancelled
SeedAndCreatedRowCancelled ==
  /\ Len(appointments) >= 2
  /\ cancelReply = 200
  /\ appointments[1].status = "CANCELLED"
  /\ appointments[2].status = "CANCELLED"
  /\ \A r \in Reqs : reply[r].status = 201 => reply[r].appointment[1].id # 1
  /\ \E r \in Reqs : reply[r].status = 201 /\ reply[r].appointment[1].id = 2

\* C15: every stored row has a status of the schema's five, and every status
\* a create or a cancel writes is PENDING or CANCELLED, so a table that starts
\* empty only ever holds these two.
StatusWritten ==
  /\ [](\A i \in Rows : appointments[i].status \in StatusDomain)
  /\ [][\A i \in 1..Len(appointments') :
          (i > Len(appointments) \/ appointments'[i].status # appointments[i].status)
          => appointments'[i].status \in {"PENDING", "CANCELLED"}]_vars

\* a table made by creates and cancels alone holds a PENDING and a CANCELLED row
PendingAndCancelledStored ==
  /\ Len(appointments) = 2
  /\ \A r \in Reqs : reply[r].status = 201
  /\ {appointments[i].status : i \in Rows} = {"PENDING", "CANCELLED"}

\* C16: no step removes a row: the set of stored ids never shrinks, and a
\* cancel leaves every row in place with every column but status and
\* updated_at as it was.
NoPhysicalDeletion ==
  [][/\ Ids(appointments) \subseteq Ids(appointments')
     /\ Len(appointments') >= Len(appointments)
     /\ \/ /\ Len(appointments') = Len(appointments)
           /\ \A i \in Rows :
                [appointments'[i] EXCEPT !.status = appointments[i].status,
                                         !.updated_at = appointments[i].updated_at]
                  = appointments[i]
        \/ ~ \E id \in CancelIds : Cancel(id)]_vars

\* a cancelled row is still stored, with the timestamp of its cancel
CancelledRowKept ==
  \E i \in Rows :
    /\ appointments[i].id = i
    /\ appointments[i].status = "CANCELLED"
    /\ appointments[i].updated_at # None
    /\ cancelReply = 200

\* C20: a row that is CANCELLED is still stored and still CANCELLED after
\* every step, a create or a cancel of any id.
CancelledAbsorbing ==
  [][\A i \in Rows :
       appointments[i].status = "CANCELLED"
       => /\ i <= Len(appointments')
          /\ appointments'[i].id = appointments[i].id
          /\ appointments'[i].status = "CANCELLED"]_vars

\* a cancelled row is followed by a row stored later, every create has been
\* answered and a cancel of an unknown id came last
CancelledRowOutlivesRequests ==
  /\ cancelReply = 404
  /\ \A r \in Reqs : handler[r].pc = "done"
  /\ \E i \in Rows : \E j \in Rows :
       /\ i < j
       /\ appointments[i].status = "CANCELLED"
       /\ appointments[j].status = "PENDING"

\* request r names a stored service whose is_active is false
NamesInactiveService(r) ==
  /\ handler[r].serviceId # None
  /\ handler[r].serviceId[1] \in DOMAIN services
  /\ ~services[handler[r].serviceId[1]].is_active

\* C17: a create that names a stored but inactive service is not refused at
\* the resolve step: it gets the duration and price an active service with the
\* same columns would get, goes on to the overlap check, and is inserted when
\* the check finds nothing.
InactiveServiceResolves ==
  [][\A r \in Reqs :
       /\ (ResolveStep(r) /\ NamesInactiveService(r))
          => /\ reply'[r] = NoReply
             /\ handler'[r].pc = "check"
             /\ handler'[r].end[1] - handler'[r].start[1]
                  = EffectiveDuration(handler[r].professionalId[1], handler[r].serviceId[1]) * 60000
             /\ handler'[r].priceCents
                  = Some(EffectivePrice(handler[r].professionalId[1], handler[r].serviceId[1]))
       /\ (CheckStep(r) /\ NamesInactiveService(r) /\ ~ \E i \in Rows : Blocks(i, r))
          => handler'[r].pc = "insert"
       /\ (InsertStep(r) /\ NamesInactiveService(r))
          => reply'[r].status = 201]_vars

\* a create was answered 201 with a row for an inactive service
InactiveServiceBooked ==
  \E r \in Reqs :
    /\ reply[r].status = 201
    /\ ~services[reply[r].appointment[1].service_id].is_active
    /\ \E i \in Rows : appointments[i].id = reply[r].appointment[1].id

\* C14: a store failure met by a create is retried, so a create that meets a
\* single failing statement, every later statement succeeding, is not answered
\* with the 500 of an internal error. (In SpecFault a request meets at most one
\* failing statement, and no input of the model makes the handler throw by
\* itself, so the claim is that no create is answered 500.)
SingleFailureAbsorbed ==
  \A r \in Reqs :
    ~(reply[r].status = 500 /\ reply[r].error = "Erro ao criar agendamento.")

\* C18: the client, professional, service, start, end and price of a stored
\* row are the same after every step: a create, a cancel of any id, or a
\* change of the catalog rows the price and duration were resolved from.
ImmutableBookingData ==
  [][\A i \in Rows :
       /\ i <= Len(appointments')
       /\ appointments'[i].id = appointments[i].id
       /\ appointments'[i].client_id = appointments[i].client_id
       /\ appointments'[i].professional_id = appointments[i].professional_id
       /\ appointments'[i].service_id = appointments[i].service_id
       /\ appointments'[i].start_time = appointments[i].start_time
       /\ appointments'[i].end_time = appointments[i].end_time
       /\ appointments'[i].total_price_cents = appointments[i].total_price_cents]_vars

\* a row booked under the first catalog has been cancelled and still carries
\* the price and length of its booking, which the changed catalog no longer gives
BookingOutlivesCatalogChange ==
  /\ services = ChangedServices
  /\ cancelReply = 200
  /\ \E i \in Rows :
       LET row == appointments[i]
       IN /\ row.status = "CANCELLED"
          /\ row.total_price_cents # EffectivePrice(row.professional_id, row.service_id)
          /\ row.end_time - row.start_time
               # EffectiveDuration(row.professional_id, row.service_id) * 60000

\* C19: when nothing is scheduled between a create's overlap check and its
\* INSERT, no two active rows of one professional intersect in any reachable
\* state, and a create that is about to insert intersects no active row of
\* its professional.
SequentialNoOverlap ==
  /\ NoOverlapInvariant
  /\ \A r \in Reqs : handler[r].pc = "insert" => ~ \E i \in Rows : Blocks(i, r)

\* on a table that started empty, of two creates for one professional the
\* first was booked and the second, intersecting it, was refused
SecondCreateRefused ==
  /\ Len(appointments) = 1
  /\ Active(appointments[1])
  /\ \E r1 \in Reqs : \E r2 \in Reqs :
       /\ reply[r1].status = 201
       /\ reply[r1].appointment[1].id = 1
       /\ reply[r2].status = 409

====
